---- MODULE Spec2Model ----
(***************************************************************************)
(* Model of the vocabulary quiz of src/app.py: the spreadsheet loader,     *)
(* the sampler (init_quiz) and the session state machine that Streamlit    *)
(* drives through st.session_state.                                        *)
(*                                                                         *)
(* Strings are sequences of one-character strings, so that strip, lower,   *)
(* replace and int() are computed character by character.  A cell that     *)
(* openpyxl reads as a number is given by the text str() makes of it.      *)
(***************************************************************************)
EXTENDS Integers, Sequences, FiniteSets, Bags, TLC

(***************************************************************************)
(* Program constant                                                        *)
(***************************************************************************)
QUESTIONS_PER_RUN == 10

(***************************************************************************)
(* Bounds of the model                                                     *)
(***************************************************************************)
\* valid rows of the large workbook beyond QUESTIONS_PER_RUN
PoolExtra == 1
\* the lower ID bound typed in the sidebar ranges over 1..MaxMinId
MaxMinId == 2
\* the random streams fed to random.sample are 0..MaxStream
MaxStream == 1

(***************************************************************************)
(* Characters and Python string methods                                    *)
(***************************************************************************)
UpperCase == <<"A","B","C","D","E","F","G","H","I","J","K","L","M",
               "N","O","P","Q","R","S","T","U","V","W","X","Y","Z">>
LowerCase == <<"a","b","c","d","e","f","g","h","i","j","k","l","m",
               "n","o","p","q","r","s","t","u","v","w","x","y","z">>
DigitChars == <<"0","1","2","3","4","5","6","7","8","9">>
WhiteSpace == {" ", "\t", "\n"}

RangeOf(s) == {s[k] : k \in 1..Len(s)}

\* str.lower() on one character
LowerChar(c) ==
  IF c \in RangeOf(UpperCase)
    THEN LowerCase[CHOOSE k \in 1..26 : UpperCase[k] = c]
    ELSE c

\* str.lower()
lower(s) == [k \in 1..Len(s) |-> LowerChar(s[k])]

\* str.strip(): drops the leading and the trailing whitespace
strip(s) ==
  LET inked == {k \in 1..Len(s) : s[k] \notin WhiteSpace}
  IN  IF inked = {} THEN <<>>
      ELSE LET a == CHOOSE k \in inked : \A m \in inked : k <= m
               b == CHOOSE k \in inked : \A m \in inked : k >= m
           IN  SubSeq(s, a, b)

\* normalize that trims and keeps the case
normalize_KeepsCase(s) == strip(s)

\* normalize(s) = str(s).strip().lower()
normalize(s) == lower(strip(s))

\* s.replace(FULLWIDTH LOW LINE, "_")
ReplaceFullWidth(s) == [k \in 1..Len(s) |-> IF s[k] = "FW_" THEN "_" ELSE s[k]]

Marker == <<"_","_","_","_">>

\* the Marker starts at position k of s
MarkerAt(s, k) == k + 3 <= Len(s) /\ SubSeq(s, k, k + 3) = Marker

\* "____" in s
HasMarker(s) == \E k \in 1..Len(s) : MarkerAt(s, k)

\* s.replace("____", answer): every non-overlapping occurrence, left to right
RECURSIVE ReplaceMarker(_, _)
ReplaceMarker(s, answer) ==
  IF s = <<>> THEN <<>>
  ELSE IF MarkerAt(s, 1)
    THEN answer \o ReplaceMarker(SubSeq(s, 5, Len(s)), answer)
    ELSE <<s[1]>> \o ReplaceMarker(Tail(s), answer)

build_full_en(cloze_en, answer) == ReplaceMarker(ReplaceFullWidth(cloze_en), answer)

\* int(s): optional sign, then digits with single underscores between them
IntBody(s) ==
  LET t == strip(s)
  IN  IF t # <<>> /\ t[1] \in {"+", "-"} THEN Tail(t) ELSE t

IsIntLiteral(s) ==
  LET b == IntBody(s)
  IN  /\ b # <<>>
      /\ \A k \in 1..Len(b) :
           \/ b[k] \in RangeOf(DigitChars)
           \/ /\ b[k] = "_"
              /\ 1 < k /\ k < Len(b)
              /\ b[k-1] \in RangeOf(DigitChars)
              /\ b[k+1] \in RangeOf(DigitChars)

DigitValue(c) == (CHOOSE k \in 1..10 : DigitChars[k] = c) - 1

RECURSIVE DigitsValue(_, _)
DigitsValue(b, acc) ==
  IF b = <<>> THEN acc
  ELSE IF b[1] = "_" THEN DigitsValue(Tail(b), acc)
  ELSE DigitsValue(Tail(b), 10 * acc + DigitValue(b[1]))

IntValue(s) ==
  LET t == strip(s)
      v == DigitsValue(IntBody(s), 0)
  IN  IF t[1] = "-" THEN 0 - v ELSE v

(***************************************************************************)
(* The workbook quiz.xlsx: an input of every start                         *)
(***************************************************************************)
\* the cell value None of openpyxl (an empty cell)
NoneCell == <<"NONE">>

\* str(v) of a cell value
Str(v) == IF v = NoneCell THEN <<"N","o","n","e">> ELSE v

ColId == <<"i","d">>
ColJa == <<"j","a">>
ColCloze == <<"c","l","o","z","e","_","e","n">>
ColAnswer == <<"a","n","s","w","e","r">>
ColFullJa == <<"f","u","l","l","_","j","a">>

required == <<ColId, ColJa, ColCloze, ColAnswer, ColFullJa>>

\* decimal text of a natural number (the cell of a numeric id)
RECURSIVE Decimal(_)
Decimal(n) ==
  IF n < 10 THEN <<DigitChars[n + 1]>>
  ELSE Decimal(n \div 10) \o <<DigitChars[(n % 10) + 1]>>

TextJa == <<"J">>
TextFullJa == <<"T">>
ClozeGo == <<"I"," ","_","_","_","_">>
ClozeAt == <<"FW_","FW_","FW_","FW_"," ","u","s">>
AnswerGo == <<"g","o">>
AnswerAt == <<"A","t">>

\* a row that passes every check; odd ids ask for "go", even ids for "At"
GoodRow(n) ==
  IF n % 2 = 1
    THEN <<Decimal(n), TextJa, ClozeGo, AnswerGo, TextFullJa>>
    ELSE <<Decimal(n), TextJa, ClozeAt, AnswerAt, TextFullJa>>

GoodRows(n) == [k \in 1..n |-> GoodRow(k)]

\* rows that fail a check, or that are unusual
RowThreeUnderscores == <<<<"2","0">>, TextJa, <<"I"," ","_","_","_">>, AnswerGo, TextFullJa>>
RowNoMarkerBadId == <<<<"x","1">>, TextJa, <<"I"," ","_","_","_">>, AnswerGo, TextFullJa>>
RowEmptyAnswer == <<<<"2","1">>, TextJa, ClozeGo, <<" ">>, TextFullJa>>
RowEmptyFullJa == <<<<"2","2">>, NoneCell, ClozeGo, AnswerGo, NoneCell>>
RowBadId == <<<<"1",".","0">>, TextJa, ClozeGo, AnswerGo, TextFullJa>>
RowBlank == <<NoneCell, NoneCell, NoneCell, NoneCell, NoneCell>>
RowTwoMarkers == <<<<"2","3">>, TextJa, Marker \o <<" ">> \o Marker, AnswerGo, TextFullJa>>

StdHeader == <<ColId, ColJa, ColCloze, ColAnswer, ColFullJa>>

\* enough valid rows for a run, bad rows in between
BookLarge ==
  [exists |-> TRUE,
   header |-> StdHeader,
   rows   |-> <<RowNoMarkerBadId>> \o GoodRows(QUESTIONS_PER_RUN + PoolExtra)
              \o <<RowThreeUnderscores, RowEmptyAnswer, RowBlank,
                   RowEmptyFullJa, RowBadId, RowTwoMarkers>>]

\* one valid row short of a run
BookSmall ==
  [exists |-> TRUE,
   header |-> <<<<" ">> \o ColId, ColJa, ColCloze, ColAnswer, ColFullJa, NoneCell>>,
   rows   |-> [k \in 1..(QUESTIONS_PER_RUN - 1) |-> GoodRow(k) \o <<NoneCell>>]
              \o <<RowBadId \o <<NoneCell>>>>]

\* no "answer" column
BookNoAnswer ==
  [exists |-> TRUE,
   header |-> <<ColId, ColJa, ColCloze, ColFullJa>>,
   rows   |-> <<<<<<"1">>, TextJa, ClozeGo, TextFullJa>>>>]

\* quiz.xlsx is not there
BookAbsent == [exists |-> FALSE, header |-> <<>>, rows |-> <<>>]

\* rows that fail two checks at once, and a blank of five underscores
RowNoMarkerNoAnswer == <<<<"3","0">>, TextJa, <<"I"," ","_","_","_">>, <<" ">>, TextFullJa>>
RowNoAnswerNoFullJa == <<<<"3","1">>, TextJa, ClozeGo, NoneCell, <<" ">>>>
RowBadIdNoAnswer == <<<<"x","2">>, TextJa, ClozeGo, NoneCell, TextFullJa>>
RowFiveUnderscores == <<<<"3","2">>, TextJa, <<"_","_","_","_","_">>, AnswerGo, TextFullJa>>

\* a short workbook of unusual rows
BookOdd ==
  [exists |-> TRUE,
   header |-> StdHeader,
   rows   |-> <<GoodRow(1), RowNoMarkerNoAnswer, RowBlank, RowNoAnswerNoFullJa,
                RowBadIdNoAnswer, RowFiveUnderscores, RowTwoMarkers, GoodRow(2)>>]

Workbooks == <<BookLarge, BookSmall, BookNoAnswer, BookAbsent, BookOdd>>

(***************************************************************************)
(* load_items_from_xlsx                                                    *)
(***************************************************************************)
FileNotFound == [type |-> "FileNotFoundError"]

MissingColumns(missing, headers) ==
  [type |-> "ValueError", what |-> "columns", missing |-> missing, headers |-> headers]

\* headers = [str(v).strip() for v in header]
Headers(header) == [k \in 1..Len(header) |-> strip(Str(header[k]))]

\* idx = {name: i for i, name in enumerate(headers)}: the last column of a name
idx(headers, name) ==
  CHOOSE k \in 1..Len(headers) :
    /\ headers[k] = name
    /\ \A m \in 1..Len(headers) : headers[m] = name => m <= k

\* missing = [c for c in required if c not in idx]
Missing(headers) ==
  LET absent(c) == c \notin RangeOf(headers)
  IN  SelectSeq(required, absent)

\* get(row, col)
get(headers, row, col) ==
  LET i == idx(headers, col)
      v == IF i <= Len(row) THEN row[i] ELSE NoneCell
  IN  IF v = NoneCell THEN <<>> ELSE strip(Str(v))

BadId == "id is not a number"
BadCloze == "cloze_en has no ____"
BadAnswer == "answer is empty"
BadFullJa == "full_ja is empty"

\* the checks of one row with the marker, the answer and the translation
\* looked at before the id
RowVerdict_IdLast(headers, row) ==
  LET cloze_en == ReplaceFullWidth(get(headers, row, ColCloze))
  IN  IF ~HasMarker(cloze_en) THEN BadCloze
      ELSE IF get(headers, row, ColAnswer) = <<>> THEN BadAnswer
      ELSE IF get(headers, row, ColFullJa) = <<>> THEN BadFullJa
      ELSE IF ~IsIntLiteral(get(headers, row, ColId)) THEN BadId
      ELSE "ok"

\* the checks of one row with a marker check that three underscores pass
RowVerdict_ShortMarker(headers, row) ==
  LET cloze_en == ReplaceFullWidth(get(headers, row, ColCloze))
      short(k) == k + 2 <= Len(cloze_en) /\ SubSeq(cloze_en, k, k + 2) = <<"_","_","_">>
  IN  IF ~IsIntLiteral(get(headers, row, ColId)) THEN BadId
      ELSE IF ~(\E k \in 1..Len(cloze_en) : short(k)) THEN BadCloze
      ELSE IF get(headers, row, ColAnswer) = <<>> THEN BadAnswer
      ELSE IF get(headers, row, ColFullJa) = <<>> THEN BadFullJa
      ELSE "ok"

\* the checks of one row, in the order of the loop body:
\* the reason it is rejected for, or "ok"
RowVerdict(headers, row) ==
  LET cloze_en == ReplaceFullWidth(get(headers, row, ColCloze))
  IN  IF ~IsIntLiteral(get(headers, row, ColId)) THEN BadId
      ELSE IF ~HasMarker(cloze_en) THEN BadCloze
      ELSE IF get(headers, row, ColAnswer) = <<>> THEN BadAnswer
      ELSE IF get(headers, row, ColFullJa) = <<>> THEN BadFullJa
      ELSE "ok"

\* QuizItem(...) of an accepted row
QuizItem(headers, row) ==
  [id       |-> get(headers, row, ColId),
   id_num   |-> IntValue(get(headers, row, ColId)),
   ja       |-> get(headers, row, ColJa),
   cloze_en |-> ReplaceFullWidth(get(headers, row, ColCloze)),
   answer   |-> get(headers, row, ColAnswer),
   full_ja  |-> get(headers, row, ColFullJa)]

\* the loop that drops a row with an empty translation without recording it
RECURSIVE LoadRows_DropsSilently(_, _, _, _)
LoadRows_DropsSilently(headers, rows, items, bad) ==
  IF rows = <<>> THEN [items |-> items, bad |-> bad]
  ELSE LET row == Head(rows)
           verdict == RowVerdict(headers, row)
       IN  IF verdict = "ok"
             THEN LoadRows_DropsSilently(headers, Tail(rows),
                                         Append(items, QuizItem(headers, row)), bad)
           ELSE IF verdict = BadFullJa
             THEN LoadRows_DropsSilently(headers, Tail(rows), items, bad)
             ELSE LoadRows_DropsSilently(headers, Tail(rows), items,
                                         Append(bad, <<get(headers, row, ColId), verdict>>))

\* the loop over the data rows: the items and the bad list, in row order
RECURSIVE LoadRows(_, _, _, _)
LoadRows(headers, rows, items, bad) ==
  IF rows = <<>> THEN [items |-> items, bad |-> bad]
  ELSE LET row == Head(rows)
           verdict == RowVerdict(headers, row)
       IN  IF verdict = "ok"
             THEN LoadRows(headers, Tail(rows), Append(items, QuizItem(headers, row)), bad)
             ELSE LoadRows(headers, Tail(rows), items,
                           Append(bad, <<get(headers, row, ColId), verdict>>))

\* the call as a whole: what it raises, or what it returns and stores as bad_rows
load_items_from_xlsx(book) ==
  IF ~book.exists
    THEN [raised |-> TRUE, error |-> FileNotFound]
  ELSE IF Missing(Headers(book.header)) # <<>>
    THEN [raised |-> TRUE,
          error |-> MissingColumns(Missing(Headers(book.header)), Headers(book.header))]
  ELSE LET r == LoadRows(Headers(book.header), book.rows, <<>>, <<>>)
       IN  [raised |-> FALSE, items |-> r.items, bad_rows |-> r.bad]

(***************************************************************************)
(* random.sample(pool, k): the selection loop of the standard library for  *)
(* a small population.  The generator's stream is an input; the draw j of  *)
(* step i below m comes from the stream's number.                          *)
(***************************************************************************)
Streams == 0..MaxStream

randbelow(stream, step, m) == (stream * (2 * step + 1)) % m

\* position j takes the last live element of the pool
MoveLast(pool, j, live) == [pool EXCEPT ![j] = pool[live]]

RECURSIVE SampleLoop(_, _, _, _, _)
SampleLoop(pool, live, step, k, stream) ==
  IF step = k THEN <<>>
  ELSE LET j == randbelow(stream, step, live) + 1
       IN  <<pool[j]>> \o SampleLoop(MoveLast(pool, j, live), live - 1, step + 1, k, stream)

sample(pool, k, stream) == SampleLoop(pool, Len(pool), 0, k, stream)

(***************************************************************************)
(* st.session_state: a dictionary, here a function from the keys it holds  *)
(***************************************************************************)
None == [is_none |-> TRUE]

IsNone(v) == "is_none" \in DOMAIN v

\* one assignment st.session_state[key] = v
Put(ss, key, v) == [x \in (DOMAIN ss) \cup {key} |-> IF x = key THEN v ELSE ss[x]]

\* the assignments of one handler, given as the record of the keys they set
Update(ss, new) ==
  [x \in (DOMAIN ss) \cup (DOMAIN new) |-> IF x \in DOMAIN new THEN new[x] ELSE ss[x]]

Has(ss, key) == key \in DOMAIN ss

\* the dictionary with no key
Empty == [x \in {} |-> None]

\* the top of every run: if "phase" not in st.session_state: phase = "start"
EnsurePhase(ss) == IF Has(ss, "phase") THEN ss ELSE Put(ss, "phase", "start")

\* reset that goes back to the start page without clearing the session
reset_PhaseOnly(ss) == Put(ss, "phase", "start")

\* the reset button: st.session_state.clear() and the rerun
reset(ss) == EnsurePhase(Empty)

(***************************************************************************)
(* init_quiz                                                               *)
(***************************************************************************)
InsufficientPool(min_id, max_id, size) ==
  [type |-> "ValueError", what |-> "pool", min_id |-> min_id, max_id |-> max_id,
   size |-> size, needed |-> QUESTIONS_PER_RUN]

\* the range filter with an exclusive lower bound
Pool_Exclusive(items, min_id, max_id) ==
  LET inRange(it) == min_id < it.id_num /\ it.id_num <= max_id
  IN  SelectSeq(items, inRange)

\* pool = [it for it in items if min_id <= it.id_num <= max_id]
Pool(items, min_id, max_id) ==
  LET inRange(it) == min_id <= it.id_num /\ it.id_num <= max_id
  IN  SelectSeq(items, inRange)

\* init_quiz that sets the cursor and the counters only when they are not
\* in the session yet
Fresh_OnlyIfAbsent(ss, quiz) ==
  IF Has(ss, "i")
    THEN Update(ss, [quiz |-> quiz, phase |-> "question", last |-> None])
    ELSE Update(ss, [quiz |-> quiz, i |-> 0, correct |-> 0, wrong |-> 0,
                     skipped |-> 0, phase |-> "question", last |-> None])

\* init_quiz that leaves the cursor of an earlier run where it is
Fresh_KeepsCursor(ss, quiz) ==
  Update(ss, [quiz |-> quiz, i |-> IF Has(ss, "i") THEN ss.i ELSE 0,
              correct |-> 0, wrong |-> 0, skipped |-> 0,
              phase |-> "question", last |-> None])

\* the assignments of a successful init_quiz
Fresh(ss, quiz) ==
  Update(ss, [quiz |-> quiz, i |-> 0, correct |-> 0, wrong |-> 0,
              skipped |-> 0, phase |-> "question", last |-> None])

\* what the start button can be pressed with: the workbook on disk (its
\* number in Workbooks) and the two ID bounds of the sidebar
DefaultMinId == 1
DefaultMaxId == 1000

MinIds == 1..MaxMinId
MaxIds == QUESTIONS_PER_RUN..(QUESTIONS_PER_RUN + PoolExtra)

StartInputs ==
  {<<1, min_id, max_id>> : min_id \in MinIds, max_id \in MaxIds}
    \cup {<<book, DefaultMinId, DefaultMaxId>> : book \in 1..Len(Workbooks)}

\* load_items_from_xlsx(XLSX_PATH) for each workbook that can be on disk
Loaded == [book \in 1..Len(Workbooks) |-> load_items_from_xlsx(Workbooks[book])]

\* init_quiz up to its assignments: what it raises, the bad_rows it stores
\* and the quiz it draws
draw(book, min_id, max_id, stream) ==
  LET loaded == Loaded[book]
  IN  IF loaded.raised
        THEN [raised |-> TRUE, error |-> loaded.error, stored |-> FALSE]
      ELSE LET pool == Pool(loaded.items, min_id, max_id)
           IN  IF Len(pool) < QUESTIONS_PER_RUN
                 THEN [raised |-> TRUE,
                       error |-> InsufficientPool(min_id, max_id, Len(pool)),
                       stored |-> TRUE, bad_rows |-> loaded.bad_rows]
                 ELSE [raised |-> FALSE,
                       stored |-> TRUE, bad_rows |-> loaded.bad_rows,
                       quiz |-> sample(pool, QUESTIONS_PER_RUN, stream)]

Draws == [in \in StartInputs, stream \in Streams |-> draw(in[1], in[2], in[3], stream)]

\* init_quiz that, when it raises, takes the run of the session with it
Assigned_FailureDropsRun(ss, d) ==
  IF d.raised
    THEN [raised |-> TRUE, error |-> d.error,
          ss |-> [x \in (DOMAIN ss) \ {"quiz", "i", "correct", "wrong", "skipped"} |-> ss[x]]]
    ELSE [raised |-> FALSE, ss |-> Fresh(Put(ss, "bad_rows", d.bad_rows), d.quiz)]

\* init_quiz that stores the rejected rows only when the draw succeeds
Assigned_StoresOnSuccess(ss, d) ==
  IF d.raised
    THEN [raised |-> TRUE, error |-> d.error, ss |-> ss]
    ELSE [raised |-> FALSE, ss |-> Fresh(Put(ss, "bad_rows", d.bad_rows), d.quiz)]

\* init_quiz whose load and draw came out as d: what it raises, and the
\* session state it leaves
Assigned(ss, d) ==
  IF d.raised
    THEN [raised |-> TRUE, error |-> d.error,
          ss |-> IF d.stored THEN Put(ss, "bad_rows", d.bad_rows) ELSE ss]
    ELSE [raised |-> FALSE, ss |-> Fresh(Put(ss, "bad_rows", d.bad_rows), d.quiz)]

init_quiz(ss, book, min_id, max_id, stream) ==
  Assigned(ss, Draws[<<book, min_id, max_id>>, stream])

(***************************************************************************)
(* The handlers of the question, feedback and done phases                  *)
(***************************************************************************)
\* the dictionary stored as st.session_state.last
Outcome(is_skip, correct, user, q) ==
  [is_skip |-> is_skip,
   correct |-> correct,
   user    |-> user,
   answer  |-> q.answer,
   full_en |-> build_full_en(q.cloze_en, q.answer),
   full_ja |-> q.full_ja]

\* the submit handler that also moves the cursor on
Scored_MovesCursor(ss, user, blank, correct) ==
  IF blank
    THEN Update(ss, [user_input |-> user, skipped |-> ss.skipped + 1, i |-> ss.i + 1,
                     last |-> Outcome(TRUE, FALSE, user, ss.quiz[ss.i + 1]),
                     phase |-> "feedback"])
  ELSE IF correct
    THEN Update(ss, [user_input |-> user, correct |-> ss.correct + 1, i |-> ss.i + 1,
                     last |-> Outcome(FALSE, TRUE, user, ss.quiz[ss.i + 1]),
                     phase |-> "feedback"])
    ELSE Update(ss, [user_input |-> user, wrong |-> ss.wrong + 1, i |-> ss.i + 1,
                     last |-> Outcome(FALSE, FALSE, user, ss.quiz[ss.i + 1]),
                     phase |-> "feedback"])

\* the assignments of the submit handler, once the text is known to be blank
\* or not and to be the answer or not; the input box holds the text
Scored(ss, user, blank, correct) ==
  IF blank
    THEN Update(ss, [user_input |-> user, skipped |-> ss.skipped + 1,
                     last |-> Outcome(TRUE, FALSE, user, ss.quiz[ss.i + 1]),
                     phase |-> "feedback"])
  ELSE IF correct
    THEN Update(ss, [user_input |-> user, correct |-> ss.correct + 1,
                     last |-> Outcome(FALSE, TRUE, user, ss.quiz[ss.i + 1]),
                     phase |-> "feedback"])
    ELSE Update(ss, [user_input |-> user, wrong |-> ss.wrong + 1,
                     last |-> Outcome(FALSE, FALSE, user, ss.quiz[ss.i + 1]),
                     phase |-> "feedback"])

\* submit that compares the trimmed text with the answer as they are spelled
submit_CaseSensitive(ss, user) ==
  Scored(ss, user, strip(user) = <<>>, strip(user) = strip(ss.quiz[ss.i + 1].answer))

\* submit that takes only the empty text, untrimmed, for a skip
submit_EmptyOnly(ss, user) ==
  Scored(ss, user, user = <<>>, normalize(user) = normalize(ss.quiz[ss.i + 1].answer))

\* the submit button, with the text of the input box
submit(ss, user) ==
  Scored(ss, user, strip(user) = <<>>, normalize(user) = normalize(ss.quiz[ss.i + 1].answer))

\* skip that counts nothing
skip_NoCount(ss) ==
  Update(ss, [last |-> Outcome(TRUE, FALSE, <<>>, ss.quiz[ss.i + 1]),
              phase |-> "feedback"])

\* skip that counts the item as wrong
skip_CountsWrong(ss) ==
  Update(ss, [wrong |-> ss.wrong + 1,
              last |-> Outcome(TRUE, FALSE, <<>>, ss.quiz[ss.i + 1]),
              phase |-> "feedback"])

\* the skip button
skip(ss) ==
  Update(ss, [skipped |-> ss.skipped + 1,
              last |-> Outcome(TRUE, FALSE, <<>>, ss.quiz[ss.i + 1]),
              phase |-> "feedback"])

\* advance that also forgets the last outcome
advance_DropsLast(ss) ==
  Update(ss, [user_input |-> <<>>, last |-> None, i |-> ss.i + 1,
              phase |-> IF ss.i + 1 >= QUESTIONS_PER_RUN THEN "done" ELSE "question"])

\* advance that ends the run one item late
advance_LateEnd(ss) ==
  Update(ss, [user_input |-> <<>>, i |-> ss.i + 1,
              phase |-> IF ss.i + 1 > QUESTIONS_PER_RUN THEN "done" ELSE "question"])

\* advance that passes over the item after the one answered
advance_SkipsItem(ss) ==
  Update(ss, [user_input |-> <<>>, i |-> ss.i + 2,
              phase |-> IF ss.i + 2 >= QUESTIONS_PER_RUN THEN "done" ELSE "question"])

\* the next button
advance(ss) ==
  Update(ss, [user_input |-> <<>>, i |-> ss.i + 1,
              phase |-> IF ss.i + 1 >= QUESTIONS_PER_RUN THEN "done" ELSE "question"])

\* restart that zeroes the counters on the way to the start page
restart_ZeroesCounters(ss) ==
  Update(ss, [user_input |-> <<>>, correct |-> 0, wrong |-> 0, skipped |-> 0,
              phase |-> "start"])

\* the "once more" button of the result page
restart(ss) == Update(ss, [user_input |-> <<>>, phase |-> "start"])

\* what the feedback page shows for an outcome
OutcomeKind(last) ==
  IF last.is_skip THEN "skipped"
  ELSE IF last.correct THEN "correct"
  ELSE "wrong"

(***************************************************************************)
(* The state machine: one action per click, the reruns included            *)
(***************************************************************************)
VARIABLES
  session_state,  \* st.session_state
  error,          \* the message st.error shows in this run
  act,            \* history: the last click and its inputs
  recorded        \* history: the bag of outcome kinds since the last successful start

vars == <<session_state, error, act, recorded>>

NoError == [type |-> "none"]

\* what the user can have typed into the input box
Texts == { <<>>, <<" ", " ">>, <<" ","G","o"," ">>, <<"a","t">>, <<"n","o">> }

Click(name, text, book, min_id, max_id) ==
  [name |-> name, from |-> session_state.phase, had_quiz |-> Has(session_state, "quiz"),
   text |-> text, book |-> book, min_id |-> min_id, max_id |-> max_id]

Init ==
  /\ session_state = EnsurePhase(Empty)
  /\ error = NoError
  /\ act = [name |-> "open", from |-> "start", had_quiz |-> FALSE,
            text |-> <<>>, book |-> 0, min_id |-> 0, max_id |-> 0]
  /\ recorded = EmptyBag

\* the reset button of the sidebar
Reset ==
  /\ session_state' = reset(session_state)
  /\ error' = NoError
  /\ act' = Click("reset", <<>>, 0, 0, 0)
  /\ recorded' = EmptyBag

\* the start button, init_quiz succeeds
StartOk ==
  /\ session_state.phase = "start"
  /\ \E in \in StartInputs, stream \in Streams :
       \E r \in {init_quiz(session_state, in[1], in[2], in[3], stream)} :
           /\ ~r.raised
           /\ session_state' = r.ss
           /\ act' = Click("start", <<>>, in[1], in[2], in[3])
  /\ error' = NoError
  /\ recorded' = EmptyBag

\* the start button, init_quiz raises
StartFails ==
  /\ session_state.phase = "start"
  /\ \E in \in StartInputs, stream \in Streams :
       \E r \in {init_quiz(session_state, in[1], in[2], in[3], stream)} :
           /\ r.raised
           /\ session_state' = r.ss
           /\ error' = r.error
           /\ act' = Click("start", <<>>, in[1], in[2], in[3])
  /\ UNCHANGED recorded

Submit ==
  /\ session_state.phase = "question"
  /\ \E user \in Texts :
       /\ session_state' = submit(session_state, user)
       /\ act' = Click("submit", user, 0, 0, 0)
  /\ error' = NoError
  /\ recorded' = recorded (+) SetToBag({OutcomeKind(session_state'.last)})

Skip ==
  /\ session_state.phase = "question"
  /\ session_state' = skip(session_state)
  /\ act' = Click("skip", <<>>, 0, 0, 0)
  /\ error' = NoError
  /\ recorded' = recorded (+) SetToBag({OutcomeKind(session_state'.last)})

Advance ==
  /\ session_state.phase = "feedback"
  /\ session_state' = advance(session_state)
  /\ error' = NoError
  /\ act' = Click("advance", <<>>, 0, 0, 0)
  /\ UNCHANGED recorded

Restart ==
  /\ session_state.phase = "done"
  /\ session_state' = restart(session_state)
  /\ error' = NoError
  /\ act' = Click("restart", <<>>, 0, 0, 0)
  /\ UNCHANGED recorded

Next ==
  \/ Reset
  \/ StartOk
  \/ StartFails
  \/ Submit
  \/ Skip
  \/ Advance
  \/ Restart

Spec == Init /\ [][Next]_vars

TypeOK ==
  /\ session_state.phase \in {"start", "question", "feedback", "done"}
  /\ error.type \in {"none", "FileNotFoundError", "ValueError"}

(***************************************************************************)
(* Reading the session                                                     *)
(***************************************************************************)
phase == session_state.phase

RunKeys == {"quiz", "i", "correct", "wrong", "skipped", "last"}

\* a successful start has set up a run that no reset has cleared
Started == RunKeys \subseteq DOMAIN session_state

Tally(ss) == ss.correct + ss.wrong + ss.skipped

HasLast(ss) == Has(ss, "last") /\ ~IsNone(ss.last)

SameCounters(ss, tt) ==
  /\ tt.correct = ss.correct
  /\ tt.wrong = ss.wrong
  /\ tt.skipped = ss.skipped

(***************************************************************************)
(* C1  The sum of the three counters and the cursor                        *)
(***************************************************************************)
\* C1 as stated: in the phases question, feedback and done,
\* correct + wrong + skipped equals the cursor i.
C1_TallyIsCursorEverywhere ==
  phase \in {"question", "feedback", "done"} => Tally(session_state) = session_state.i

\* C1 amended: the sum equals the cursor in the phases question and done (and
\* in phase start after a finished run); in phase feedback the answer is
\* already counted and the cursor not yet moved, so the sum is the cursor + 1.
C1_TallyFollowsCursor ==
  /\ phase \in {"question", "feedback", "done"} => Started
  /\ Started /\ phase \in {"question", "done", "start"} =>
       Tally(session_state) = session_state.i
  /\ phase = "feedback" => Tally(session_state) = session_state.i + 1

C1_Witness ==
  /\ phase = "feedback"
  /\ session_state.i = 3
  /\ Tally(session_state) = 4

C4_AdvanceMovesCursor ==
  /\ [](ENABLED Advance => phase = "feedback")
  /\ [][act'.name = "advance" =>
          /\ phase = "feedback"
          /\ session_state'.i = session_state.i + 1
          /\ (session_state.i + 1 < QUESTIONS_PER_RUN => session_state'.phase = "question")
          /\ (session_state.i + 1 = QUESTIONS_PER_RUN => session_state'.phase = "done")
          /\ session_state.i + 1 <= QUESTIONS_PER_RUN
          /\ SameCounters(session_state, session_state')]_vars

C4_Witness ==
  /\ act.name = "advance"
  /\ phase = "done"
  /\ session_state.i = QUESTIONS_PER_RUN

(***************************************************************************)
(* C5  Submitting a text                                                   *)
(***************************************************************************)
\* C5: a submit click in phase question with a text that is not empty after
\* trimming adds 1 to correct and records a correct outcome when
\* normalize(text) = normalize(answer of the current item), else adds 1 to
\* wrong and records a wrong outcome; either way the phase becomes feedback
\* and skipped does not change.
C5_SubmitScoresText ==
  [][(act'.name = "submit" /\ strip(act'.text) # <<>>) =>
       LET q == session_state.quiz[session_state.i + 1]
           hit == normalize(act'.text) = normalize(q.answer)
       IN  /\ phase = "question"
           /\ session_state'.phase = "feedback"
           /\ session_state'.skipped = session_state.skipped
           /\ session_state'.last.user = act'.text
           /\ hit => /\ session_state'.correct = session_state.correct + 1
                     /\ session_state'.wrong = session_state.wrong
                     /\ OutcomeKind(session_state'.last) = "correct"
           /\ ~hit => /\ session_state'.wrong = session_state.wrong + 1
                      /\ session_state'.correct = session_state.correct
                      /\ OutcomeKind(session_state'.last) = "wrong"]_vars

\* " Go " was submitted for the answer "go" and counted as correct
C5_Witness ==
  /\ act.name = "submit"
  /\ act.text = <<" ","G","o"," ">>
  /\ phase = "feedback"
  /\ session_state.last.answer = <<"g","o">>
  /\ OutcomeKind(session_state.last) = "correct"
  /\ session_state.correct = 2
  /\ session_state.wrong = 1

(***************************************************************************)
(* C6  Submitting nothing                                                  *)
(***************************************************************************)
\* the session but for the raw text of the input box, which the outcome and
\* the widget hold
WithoutText(ss) ==
  Update(ss, [user_input |-> <<>>, last |-> [ss.last EXCEPT !.user = <<>>]])

\* C6: a submit click with an empty or whitespace-only text does what the
\* skip click does: skipped + 1, correct and wrong unchanged, an outcome of
\* kind skipped, phase feedback; the two resulting sessions differ in nothing
\* but the raw text they hold.
C6_BlankSubmitIsSkip ==
  [][(act'.name = "submit" /\ strip(act'.text) = <<>>) =>
       /\ phase = "question"
       /\ session_state'.phase = "feedback"
       /\ session_state'.skipped = session_state.skipped + 1
       /\ session_state'.correct = session_state.correct
       /\ session_state'.wrong = session_state.wrong
       /\ OutcomeKind(session_state'.last) = "skipped"
       /\ WithoutText(session_state') = WithoutText(skip(session_state))]_vars

C6_Witness ==
  /\ act.name = "submit"
  /\ act.text = <<" ", " ">>
  /\ phase = "feedback"
  /\ OutcomeKind(session_state.last) = "skipped"
  /\ session_state.skipped = 2

(***************************************************************************)
(* C7  The tally of a finished run                                         *)
(***************************************************************************)
\* C7: in phase done the three counters are the numbers of correct, wrong and
\* skipped outcomes recorded since the start of the run, and they add up to
\* K = 10.
C7_DoneTallyMatchesOutcomes ==
  phase = "done" =>
    /\ session_state.correct = CopiesIn("correct", recorded)
    /\ session_state.wrong = CopiesIn("wrong", recorded)
    /\ session_state.skipped = CopiesIn("skipped", recorded)
    /\ BagCardinality(recorded) = QUESTIONS_PER_RUN
    /\ Tally(session_state) = QUESTIONS_PER_RUN

\* 6 correct, 3 wrong, 1 skipped
C7_Witness ==
  /\ phase = "done"
  /\ session_state.correct = 6
  /\ session_state.wrong = 3
  /\ session_state.skipped = 1

(***************************************************************************)
(* C8  The reset button                                                    *)
(***************************************************************************)
\* C8: reset can be clicked in every phase; it removes every key of the
\* session (quiz, cursor, counters, last outcome, bad rows) and leaves phase
\* start.
C8_ResetClearsAll ==
  /\ [](ENABLED Reset)
  /\ [][act'.name = "reset" =>
          /\ DOMAIN session_state' = {"phase"}
          /\ session_state'.phase = "start"]_vars

\* a reset in the middle of a run
C8_Witness ==
  /\ act.name = "reset"
  /\ act.from = "feedback"
  /\ act.had_quiz
  /\ phase = "start"
  /\ ~Started

(***************************************************************************)
(* C9  A successful start                                                  *)
(***************************************************************************)
\* C9: a start click that succeeds is taken in phase start and sets phase
\* question, cursor 0, the three counters 0, no last outcome and a quiz of
\* exactly K items, whatever the session held before.
C9_StartSetsUpRun ==
  [][(act'.name = "start" /\ error'.type = "none") =>
       /\ phase = "start"
       /\ Started'
       /\ session_state'.phase = "question"
       /\ session_state'.i = 0
       /\ session_state'.correct = 0
       /\ session_state'.wrong = 0
       /\ session_state'.skipped = 0
       /\ ~HasLast(session_state')
       /\ Len(session_state'.quiz) = QUESTIONS_PER_RUN
       /\ \E stream \in Streams :
            session_state'.quiz =
              Draws[<<act'.book, act'.min_id, act'.max_id>>, stream].quiz]_vars

\* a start over the leftovers of a finished run
C9_Witness ==
  /\ act.name = "start"
  /\ act.had_quiz
  /\ phase = "question"
  /\ session_state.i = 0
  /\ Tally(session_state) = 0

(***************************************************************************)
(* C10  The sampler                                                        *)
(***************************************************************************)
SeqToBag(s) == [x \in RangeOf(s) |-> Cardinality({k \in 1..Len(s) : s[k] = x})]

\* the pool of a start: the accepted records of the workbook whose numeric
\* id lies in [min_id, max_id], as a bag
PoolBag(book, min_id, max_id) ==
  LET items == Loaded[book].items
      inside == {k \in 1..Len(items) :
                   items[k].id_num >= min_id /\ items[k].id_num <= max_id}
  IN  [x \in {items[k] : k \in inside} |->
         Cardinality({k \in inside : items[k] = x})]

\* the pool of every start whose workbook is read to the end
PoolBags ==
  [in \in {x \in StartInputs : ~Loaded[x[1]].raised} |-> PoolBag(in[1], in[2], in[3])]

\* C10: when the workbook loads, a start succeeds exactly if the pool has at
\* least K records; the quiz is then K records of the pool, none taken
\* twice (the whole pool when it has exactly K); with fewer than K the start
\* fails with the error that states the size of the pool and K.
C10_SampleNeedsPool ==
  (act.name = "start" /\ ~Loaded[act.book].raised) =>
    LET pool == PoolBags[<<act.book, act.min_id, act.max_id>>]
        size == BagCardinality(pool)
    IN  /\ (error.type = "none") <=> (size >= QUESTIONS_PER_RUN)
        /\ size >= QUESTIONS_PER_RUN =>
             /\ phase = "question"
             /\ Len(session_state.quiz) = QUESTIONS_PER_RUN
             /\ SeqToBag(session_state.quiz) \sqsubseteq pool
             /\ (size = QUESTIONS_PER_RUN => SeqToBag(session_state.quiz) = pool)
        /\ size < QUESTIONS_PER_RUN =>
             /\ phase = "start"
             /\ error.type = "ValueError"
             /\ error.what = "pool"
             /\ error.size = size
             /\ error.needed = QUESTIONS_PER_RUN

\* a pool of exactly K records, all of them drawn
C10_Witness ==
  /\ act.name = "start"
  /\ act.min_id = 2
  /\ act.max_id = QUESTIONS_PER_RUN + 1
  /\ phase = "question"
  /\ {session_state.quiz[k].id_num : k \in 1..QUESTIONS_PER_RUN}
       = 2..(QUESTIONS_PER_RUN + 1)

\* a pool of K - 1 records
C10_WitnessShort ==
  /\ act.name = "start"
  /\ error.type = "ValueError"
  /\ error.what = "pool"
  /\ error.size = QUESTIONS_PER_RUN - 1

(***************************************************************************)
(* C11  A start that fails                                                 *)
(***************************************************************************)
\* the keys of the run that ss and tt hold alike
SameRun(ss, tt) ==
  \A key \in {"quiz", "i", "correct", "wrong", "skipped"} :
    /\ Has(tt, key) <=> Has(ss, key)
    /\ Has(ss, key) => tt[key] = ss[key]

FailedStart == act.name = "start" /\ error.type # "none"

\* C11: a start click that fails (no file, missing columns, pool too small)
\* leaves the phase at start and the items, the cursor and the counters as
\* they were, and the session can still be started: after it a start click
\* with a sufficient pool succeeds and reaches phase question.
C11_FailedStartKeepsSession ==
  /\ [][(act'.name = "start" /\ error'.type # "none") =>
          /\ phase = "start"
          /\ session_state'.phase = "start"
          /\ SameRun(session_state, session_state')]_vars
  /\ [](FailedStart =>
          /\ error.type \in {"FileNotFoundError", "ValueError"}
          /\ ENABLED StartOk
          /\ \A in \in StartInputs, stream \in Streams :
               ~Draws[in, stream].raised =>
                 init_quiz(session_state, in[1], in[2], in[3], stream).ss.phase = "question")

\* a start that fails for the pool, over the leftovers of a finished run
C11_Witness ==
  /\ FailedStart
  /\ error.type = "ValueError"
  /\ error.what = "pool"
  /\ act.had_quiz
  /\ session_state.i = QUESTIONS_PER_RUN
  /\ phase = "start"

(***************************************************************************)
(* C12  The reason a row is rejected for                                   *)
(***************************************************************************)
\* the last click was a start whose workbook was read to the end
LoadedStart == act.name = "start" /\ ~Loaded[act.book].raised

\* the cell of a column as the loader reads it
Cell(book, row, col) == get(Headers(book.header), row, col)

\* the check named by a reason fails on the row
Fails(book, row, reason) ==
  CASE reason = BadId     -> ~IsIntLiteral(Cell(book, row, ColId))
    [] reason = BadCloze  -> ~HasMarker(ReplaceFullWidth(Cell(book, row, ColCloze)))
    [] reason = BadAnswer -> Cell(book, row, ColAnswer) = <<>>
    [] reason = BadFullJa -> Cell(book, row, ColFullJa) = <<>>

\* the first reason of the order whose check fails on the row
FirstFailing(book, row, order) ==
  order[CHOOSE k \in 1..Len(order) :
          /\ Fails(book, row, order[k])
          /\ \A m \in 1..(k - 1) : ~Fails(book, row, order[m])]

FailsSome(book, row) ==
  \E reason \in {BadId, BadCloze, BadAnswer, BadFullJa} : Fails(book, row, reason)

\* the data rows of the workbook that fail a check, in row order
FailingRows(book) ==
  LET failing(row) == FailsSome(book, row)
  IN  SelectSeq(book.rows, failing)

\* every cell of the row is empty
EntirelyBlank(row) == \A k \in 1..Len(row) : row[k] = NoneCell

\* the workbooks that are read to the end
LoadingBooks == {b \in 1..Len(Workbooks) : ~Loaded[b].raised}

FailingOf == [b \in LoadingBooks |-> FailingRows(Workbooks[b])]

\* for each failing row of a workbook, the first failing check of the order;
\* none for a row that is entirely blank
FirstReasons(b, order) ==
  [k \in 1..Len(FailingOf[b]) |->
     IF EntirelyBlank(FailingOf[b][k]) THEN "blank"
     ELSE FirstFailing(Workbooks[b], FailingOf[b][k], order)]

MarkerFirst == [b \in LoadingBooks |-> FirstReasons(b, <<BadCloze, BadAnswer, BadFullJa, BadId>>)]

IdFirst == [b \in LoadingBooks |-> FirstReasons(b, <<BadId, BadCloze, BadAnswer, BadFullJa>>)]

\* after a load, the reason recorded for every rejected row (a blank row
\* aside) is the expected one
ReasonsFollow(expected) ==
  LoadedStart =>
    /\ Len(session_state.bad_rows) = Len(expected[act.book])
    /\ \A k \in 1..Len(session_state.bad_rows) :
         expected[act.book][k] # "blank" =>
           session_state.bad_rows[k][2] = expected[act.book][k]

\* C12 as stated: the reason recorded for a rejected row is that of the first
\* failing check in the order marker, answer, translation, id; a row without
\* marker and with a non-numeric id is rejected for the marker.
C12_MarkerCheckedFirst == ReasonsFollow(MarkerFirst)

\* C12 as the loader has it: the reason recorded for a rejected row is that
\* of the first failing check in the order id, marker, answer, translation;
\* a row without marker and with a non-numeric id is rejected for the id.
C12_IdCheckedFirst == ReasonsFollow(IdFirst)

\* the workbook of unusual rows has been read: rows failing two checks are
\* there with the reason of the earlier check
C12_Witness ==
  /\ LoadedStart
  /\ Workbooks[act.book] = BookOdd
  /\ session_state.bad_rows =
       << <<<<"3","0">>, BadCloze>>, <<<<>>, BadId>>, <<<<"3","1">>, BadAnswer>>,
          <<<<"x","2">>, BadId>> >>

(***************************************************************************)
(* C13  Accepted and rejected rows                                         *)
(***************************************************************************)
\* the data rows of the workbook that pass every check, in row order
PassingRows(book) ==
  LET passing(row) == ~FailsSome(book, row)
  IN  SelectSeq(book.rows, passing)

PassingOf == [b \in LoadingBooks |-> PassingRows(Workbooks[b])]

\* the records returned for a workbook are sound, and they are its passing rows
RecordsSound ==
  [b \in LoadingBooks |->
     LET book == Workbooks[b]
         items == Loaded[b].items
         passing == PassingOf[b]
     IN  /\ \A k \in 1..Len(items) :
              /\ HasMarker(items[k].cloze_en)
              /\ strip(items[k].answer) # <<>>
              /\ strip(items[k].full_ja) # <<>>
         /\ Len(items) = Len(passing)
         /\ \A k \in 1..Len(items) :
              /\ items[k].id = Cell(book, passing[k], ColId)
              /\ items[k].answer = Cell(book, passing[k], ColAnswer)
              /\ items[k].cloze_en = ReplaceFullWidth(Cell(book, passing[k], ColCloze))]

\* the identifiers of the failing rows of a workbook, in row order
FailingIds ==
  [b \in LoadingBooks |->
     [k \in 1..Len(FailingOf[b]) |-> Cell(Workbooks[b], FailingOf[b][k], ColId)]]

\* C13: the loader splits the data rows in two.  Every returned record has
\* the marker in its cloze text and a non-empty trimmed answer and
\* translation; the records are the rows that pass every check and the
\* rejected list holds the rows that fail one, each once, in row order, with
\* its identifier and one reason; no row is in both lists or in neither.
\* The items of a quiz are returned records.
C13_LoaderPartitionsRows ==
  LoadedStart =>
    /\ RecordsSound[act.book]
    /\ Len(session_state.bad_rows) = Len(FailingIds[act.book])
    /\ \A k \in 1..Len(session_state.bad_rows) :
         /\ Len(session_state.bad_rows[k]) = 2
         /\ session_state.bad_rows[k][1] = FailingIds[act.book][k]
         /\ session_state.bad_rows[k][2] \in {BadId, BadCloze, BadAnswer, BadFullJa}
    /\ Len(Loaded[act.book].items) + Len(session_state.bad_rows)
         = Len(Workbooks[act.book].rows)
    /\ phase = "question" =>
         \A k \in 1..Len(session_state.quiz) :
           \E m \in 1..Len(Loaded[act.book].items) :
             session_state.quiz[k] = Loaded[act.book].items[m]

\* the large workbook has been read: its valid rows are returned, its six
\* bad rows are rejected
C13_Witness ==
  /\ LoadedStart
  /\ Workbooks[act.book] = BookLarge
  /\ phase = "question"
  /\ Len(Loaded[act.book].items) = QUESTIONS_PER_RUN + PoolExtra + 1
  /\ Len(session_state.bad_rows) = 6
  /\ \E k \in 1..6 : session_state.bad_rows[k] = <<<<"2","2">>, BadFullJa>>

(***************************************************************************)
(* C14  A blank row                                                        *)
(***************************************************************************)
\* the data rows of the workbook that are not entirely blank
InkedRows(book) ==
  LET inked(row) == ~EntirelyBlank(row)
  IN  SelectSeq(book.rows, inked)

\* C14: the loader skips a data row that is entirely blank: the row is
\* neither among the returned records nor in the rejected list, so the two
\* lists together have one entry for each row that is not blank.
C14_BlankRowSkipped ==
  LoadedStart =>
    Len(Loaded[act.book].items) + Len(session_state.bad_rows)
      = Len(InkedRows(Workbooks[act.book]))

\* a workbook with a blank row has been read
C14_Witness ==
  /\ LoadedStart
  /\ \E k \in 1..Len(Workbooks[act.book].rows) :
       EntirelyBlank(Workbooks[act.book].rows[k])
  /\ \E k \in 1..Len(session_state.bad_rows) :
       session_state.bad_rows[k] = <<<<>>, BadId>>

(***************************************************************************)
(* C15  The rejected rows the session holds                                *)
(***************************************************************************)
\* ss and tt hold the same rejected-row list, or both none
SameBadRows(ss, tt) ==
  /\ Has(tt, "bad_rows") <=> Has(ss, "bad_rows")
  /\ Has(ss, "bad_rows") => tt.bad_rows = ss.bad_rows

\* C15 as stated: once a load has been performed the session holds the
\* rejected rows of the most recent load, whatever is clicked afterwards
\* (reset, restart and a failed start included): a start that reads the
\* workbook stores its rejected rows, and every other click keeps the list
\* the session holds.
C15_RejectedListAlwaysKept ==
  [][/\ (act'.name = "start" /\ ~Loaded[act'.book].raised) =>
          /\ Has(session_state', "bad_rows")
          /\ session_state'.bad_rows = Loaded[act'.book].bad_rows
     /\ (~(act'.name = "start" /\ ~Loaded[act'.book].raised)
           /\ Has(session_state, "bad_rows")) =>
          /\ Has(session_state', "bad_rows")
          /\ session_state'.bad_rows = session_state.bad_rows]_vars

\* C15 as the session has it: a start that reads the workbook stores its
\* rejected rows, whether the draw then succeeds or not; submit, skip,
\* advance, restart and a start that fails before the rows are read keep the
\* list the session holds; a reset removes it, and the session holds none
\* until the next start that reads the workbook.
C15_RejectedListKeptUntilReset ==
  [][/\ (act'.name = "start" /\ ~Loaded[act'.book].raised) =>
          /\ Has(session_state', "bad_rows")
          /\ session_state'.bad_rows = Loaded[act'.book].bad_rows
     /\ act'.name = "reset" => ~Has(session_state', "bad_rows")
     /\ (~(act'.name = "start" /\ ~Loaded[act'.book].raised) /\ act'.name # "reset") =>
          SameBadRows(session_state, session_state')]_vars

\* after a finished run and a restart, a start that finds no file: the
\* session still holds the rejected rows of the large workbook
C15_Witness ==
  /\ act.name = "start"
  /\ error.type = "FileNotFoundError"
  /\ act.had_quiz
  /\ Has(session_state, "bad_rows")
  /\ session_state.bad_rows = Loaded[1].bad_rows

(***************************************************************************)
(* C16  The blank marker of an accepted record                             *)
(***************************************************************************)
\* the positions of s where a marker starts
MarkerStarts(s) == {k \in 1..Len(s) : MarkerAt(s, k)}

\* the markers of s that do not overlap, counted from the left
RECURSIVE Occurrences(_)
Occurrences(s) ==
  IF s = <<>> THEN 0
  ELSE IF MarkerAt(s, 1) THEN 1 + Occurrences(SubSeq(s, 5, Len(s)))
  ELSE Occurrences(Tail(s))

\* s with the four characters from position k on replaced by the answer
FilledAt(s, k, answer) == SubSeq(s, 1, k - 1) \o answer \o SubSeq(s, k + 4, Len(s))

\* the rejected-list entries of the rows of a workbook that have a numeric id
\* and no marker
NoMarkerEntries ==
  [b \in LoadingBooks |->
     {<<Cell(Workbooks[b], Workbooks[b].rows[k], ColId), BadCloze>> :
        k \in {m \in 1..Len(Workbooks[b].rows) :
                 /\ ~Fails(Workbooks[b], Workbooks[b].rows[m], BadId)
                 /\ Fails(Workbooks[b], Workbooks[b].rows[m], BadCloze)}}]

\* a row with a numeric id and no marker is in the rejected list for the marker
NoMarkerRejected ==
  \A e \in NoMarkerEntries[act.book] :
    \E k \in 1..Len(session_state.bad_rows) : session_state.bad_rows[k] = e

\* every record returned for a workbook has exactly one marker, filled by
\* build_full_en
OneMarkerEach ==
  [b \in LoadingBooks |->
     \A it \in RangeOf(Loaded[b].items) :
       /\ Cardinality(MarkerStarts(it.cloze_en)) = 1
       /\ \E k \in MarkerStarts(it.cloze_en) :
            build_full_en(it.cloze_en, it.answer) = FilledAt(it.cloze_en, k, it.answer)]

\* every record returned for a workbook has a marker, and build_full_en
\* fills each of its markers, from the left
MarkersFilled ==
  [b \in LoadingBooks |->
     \A it \in RangeOf(Loaded[b].items) :
       /\ MarkerStarts(it.cloze_en) # {}
       /\ "FW_" \notin RangeOf(it.cloze_en)
       /\ Len(build_full_en(it.cloze_en, it.answer))
            = Len(it.cloze_en) + Occurrences(it.cloze_en) * (Len(it.answer) - 4)
       /\ Cardinality(MarkerStarts(it.cloze_en)) = 1 =>
            \E k \in MarkerStarts(it.cloze_en) :
              build_full_en(it.cloze_en, it.answer) = FilledAt(it.cloze_en, k, it.answer)]

\* C16 as stated: every record the loader accepts has exactly one marker in
\* its cloze text, so that build_full_en puts the answer in exactly one
\* place; a cloze text with only three underscores is rejected for the
\* marker.
C16_ExactlyOneMarker ==
  LoadedStart => (OneMarkerEach[act.book] /\ NoMarkerRejected)

\* C16 as the loader has it: every record the loader accepts has at least
\* one marker in its cloze text, and build_full_en puts the answer in the
\* place of every marker, from the left: in exactly one place when there is
\* exactly one; a cloze text with only three underscores, in a row with a
\* numeric id, is rejected for the marker.  The sentence the feedback page
\* shows is build_full_en of the item answered.
C16_AtLeastOneMarker ==
  /\ LoadedStart => (MarkersFilled[act.book] /\ NoMarkerRejected)
  /\ phase = "feedback" =>
       session_state.last.full_en =
         build_full_en(session_state.quiz[session_state.i + 1].cloze_en,
                       session_state.quiz[session_state.i + 1].answer)

\* the record with two markers is answered: the answer is put in both places
C16_Witness ==
  /\ phase = "feedback"
  /\ session_state.quiz[session_state.i + 1].cloze_en = Marker \o <<" ">> \o Marker
  /\ session_state.last.full_en = <<"g","o"," ","g","o">>

(***************************************************************************)
(* C17  What the clicks of a run leave alone                               *)
(***************************************************************************)
\* the counters of tt that are one above those of ss
Raised(ss, tt) == {c \in {"correct", "wrong", "skipped"} : tt[c] = ss[c] + 1}

\* C17: the items drawn by a start stay as they are through the run: submit,
\* skip and advance leave them unchanged; submit and skip raise exactly one
\* counter, by one, and leave the cursor unchanged; advance leaves the three
\* counters unchanged.
C17_RunFrame ==
  [][/\ act'.name \in {"submit", "skip"} =>
          /\ session_state'.quiz = session_state.quiz
          /\ session_state'.i = session_state.i
          /\ Cardinality(Raised(session_state, session_state')) = 1
          /\ \A c \in {"correct", "wrong", "skipped"} \ Raised(session_state, session_state') :
               session_state'[c] = session_state[c]
     /\ act'.name = "advance" =>
          /\ session_state'.quiz = session_state.quiz
          /\ SameCounters(session_state, session_state')]_vars

\* the fourth item has been answered and left: the items are still a draw of
\* its start, with three counters that are not all zero
C17_Witness ==
  /\ act.name = "advance"
  /\ session_state.i = 4
  /\ session_state.correct = 2
  /\ session_state.wrong = 1
  /\ session_state.skipped = 1
  /\ Len(session_state.quiz) = QUESTIONS_PER_RUN

(***************************************************************************)
(* C18  normalize, over every string of a bounded alphabet and length      *)
(***************************************************************************)
\* the longest string normalize is given
MaxLen == 3

Alphabet == {" ", "a", "A", "b"}

Strs == UNION {[1..n -> Alphabet] : n \in 0..MaxLen}

\* normalize applied to a string s and to a string t, then to its own result
\* for s; session_state holds the arguments and the results
NormInit ==
  /\ session_state \in {[s |-> s] : s \in Strs}
  /\ error = NoError
  /\ act = [name |-> "normalize"]
  /\ recorded = EmptyBag

Normalize ==
  /\ ~Has(session_state, "ns")
  /\ \E t \in Strs :
       session_state' = Update(session_state,
                               [t |-> t, ns |-> normalize(session_state.s),
                                nt |-> normalize(t)])
  /\ UNCHANGED <<error, act, recorded>>

NormalizeAgain ==
  /\ Has(session_state, "ns")
  /\ ~Has(session_state, "nns")
  /\ session_state' = Put(session_state, "nns", normalize(session_state.ns))
  /\ UNCHANGED <<error, act, recorded>>

NormNext == Normalize \/ NormalizeAgain

NormSpec == NormInit /\ [][NormNext]_vars

\* every character of w is whitespace
IsPadding(w) == \A k \in 1..Len(w) : w[k] \in WhiteSpace

\* what is left of s when some leading and some trailing whitespace is taken off
Cores(s) ==
  {SubSeq(s, a + 1, Len(s) - b) :
     <<a, b>> \in {p \in (0..Len(s)) \X (0..Len(s)) :
                    /\ p[1] + p[2] <= Len(s)
                    /\ IsPadding(SubSeq(s, 1, p[1]))
                    /\ IsPadding(SubSeq(s, Len(s) - p[2] + 1, Len(s)))}}

\* c and d are the same but for the case of their letters
CaseEq(c, d) ==
  /\ Len(c) = Len(d)
  /\ \A k \in 1..Len(c) :
       \/ c[k] = d[k]
       \/ \E m \in 1..26 : {c[k], d[k]} = {UpperCase[m], LowerCase[m]}

\* s and t differ only in letter case and in leading and trailing whitespace
Variant(s, t) == \E c \in Cores(s), d \in Cores(t) : CaseEq(c, d)

\* C18: normalize is idempotent, and two strings that differ only in letter
\* case and in leading and trailing whitespace have the same normalize
\* result, for all strings over Alphabet of length up to MaxLen.
C18_NormalizeIdempotentFolding ==
  /\ Has(session_state, "nns") => session_state.nns = session_state.ns
  /\ (Has(session_state, "nt") /\ Variant(session_state.s, session_state.t)) =>
       session_state.ns = session_state.nt

\* " A" and "a " are variants, and normalize has been applied twice
C18_Witness ==
  /\ Has(session_state, "nns")
  /\ session_state.s = <<" ", "A">>
  /\ session_state.t = <<"a", " ">>
  /\ Variant(session_state.s, session_state.t)
  /\ session_state.nns = <<"a">>
  /\ session_state.nt = <<"a">>

(***************************************************************************)
(* C19  The cursor stays inside the items                                  *)
(***************************************************************************)
\* C19: the cursor, once a start has set it, is between 0 and K; in the
\* phases question and feedback the items are there, K of them, and the
\* cursor is below K, so that quiz[i] is an item; the cursor is K only in
\* phase done, or in phase start after a finished run.
C19_CursorInRange ==
  /\ Has(session_state, "i") =>
       /\ session_state.i \in 0..QUESTIONS_PER_RUN
       /\ Has(session_state, "quiz")
  /\ phase \in {"question", "feedback"} =>
       /\ Started
       /\ Len(session_state.quiz) = QUESTIONS_PER_RUN
       /\ session_state.i < QUESTIONS_PER_RUN
       /\ session_state.i + 1 \in DOMAIN session_state.quiz
  /\ (Has(session_state, "i") /\ session_state.i = QUESTIONS_PER_RUN) =>
       phase \in {"done", "start"}
  /\ phase = "done" => (Started /\ session_state.i = QUESTIONS_PER_RUN)

\* the last item is being answered
C19_Witness ==
  /\ phase = "feedback"
  /\ session_state.i = QUESTIONS_PER_RUN - 1
  /\ session_state.last.answer = session_state.quiz[QUESTIONS_PER_RUN].answer
  /\ act.had_quiz

(***************************************************************************)
(* C20  A run, answer by answer                                            *)
(***************************************************************************)
\* the number of outcomes recorded since the start of the run
Answered == BagCardinality(recorded)

\* C20: short of a reset, a run takes its items one at a time: an answer
\* (submit or skip) comes only right after the successful start or an
\* advance, and an advance only right after an answer; the answer is for the
\* item at the cursor, which is the number of items answered so far, so the
\* items get their outcomes in the order 0..K-1, none twice and none passed
\* over; phase done is there only after K answers and K advances.
C20_OneAnswerPerItemInOrder ==
  /\ [][/\ act'.name \in {"submit", "skip"} =>
             /\ \/ act.name = "start" /\ error.type = "none"
                \/ act.name = "advance"
             /\ phase = "question"
             /\ session_state.i = Answered
             /\ session_state'.last.answer = session_state.quiz[Answered + 1].answer
             /\ session_state'.last.full_ja = session_state.quiz[Answered + 1].full_ja
             /\ Answered' = Answered + 1
        /\ act'.name = "advance" =>
             /\ act.name \in {"submit", "skip"}
             /\ phase = "feedback"
             /\ session_state.i + 1 = Answered
             /\ session_state'.i = Answered
             /\ Answered' = Answered
        /\ (act'.name = "start" /\ error'.type = "none") =>
             (Answered' = 0 /\ session_state'.i = 0)]_vars
  /\ [](phase = "done" =>
          /\ act.name = "advance"
          /\ Answered = QUESTIONS_PER_RUN
          /\ session_state.i = QUESTIONS_PER_RUN)

\* a run in which every item was skipped has come to its end
C20_Witness ==
  /\ phase = "done"
  /\ act.name = "advance"
  /\ Answered = QUESTIONS_PER_RUN
  /\ CopiesIn("skipped", recorded) = QUESTIONS_PER_RUN
  /\ session_state.i = QUESTIONS_PER_RUN

====
